---- MODULE Spec2Model ----
(***************************************************************************)
(* Model of the VoiceAssistant component (src/services/geminiService.ts,   *)
(* lines 131-332): the live-session controller, its capture source, the    *)
(* inbound message router and the playback scheduler it drives.            *)
(*                                                                         *)
(* One action stands for one event-loop task: a handler together with the  *)
(* React re-render and the [isListening] effect it triggers.               *)
(*                                                                         *)
(* The second part models the App component (src/unnamed/part_001) and the *)
(* request functions it calls (geminiService.ts, lines 7-106).             *)
(***************************************************************************)
EXTENDS Integers, Sequences, FiniteSets, TLC

\* ---- bounds of the model ------------------------------------------------
\* A run explores up to limit.sessions startSession calls, limit.msgs inbound
\* messages, limit.frames captured frames and limit.time clock ticks; each
\* specification below sets its own limit.
MaxSessions   == 2   \* startSession calls (Spec, SpecSession)
MaxFrames     == 2   \* frames produced by onaudioprocess (Spec, SpecSession)
MaxMsgs       == 2   \* inbound messages (Spec)
MaxTime       == 1   \* last value of the output clock (Spec)
AudioSessions == 1   \* startSession calls (SpecAudio, SpecRouter, SpecInterrupt)
AudioMsgs     == 2   \* inbound messages (SpecAudio)
AudioTime     == 1   \* last value of the output clock (SpecAudio)
RouterMsgs    == 2   \* inbound messages (SpecRouter)
IntrMsgs      == 3   \* inbound messages (SpecInterrupt)
MaxTimers     == 1   \* pending setTimeout callbacks of handleSmartStyle (SpecApp)
MaxOneShots   == 1   \* source nodes started by playTTS
TtsMsgs       == 1   \* inbound messages (SpecTts)
PlaybackMsgs  == 1   \* inbound messages (SpecPlayback)
PlaybackTime  == 1   \* ticks of the output clock (SpecPlayback)

Sessions  == 1..MaxSessions
Durations == {1, 2}   \* durations of the decoded buffers

VARIABLES
  mounted,                \* the component is mounted
  isListening,            \* prop isListening (the parent's listening intent)
  connectionStatus,       \* useState connectionStatus
  sessionRef,             \* 0 = null, else the startSession call whose promise it holds
  audioContextInputRef,   \* 0 = null, else the call that created the context
  audioContextOutputRef,  \* "null" | "open" | "closed"
  streamRef,              \* 0 = null, else the call whose MediaStream it holds
  processorRef,           \* 0 = null, else the call whose ScriptProcessor it holds
  nextStartTimeRef,       \* the scheduler's cursor
  sourceNodesRef,         \* the active set: indices into handles
  attempts,               \* number of startSession calls so far
  sess,                   \* per startSession call: its resources and connection
  now,                    \* audioContextOutputRef.current.currentTime
  msgs,                   \* inbound messages in arrival order
  handles,                \* source nodes in the order start() was called
  transcripts,            \* arguments of the onTranscript calls, in call order
  frames,                 \* number of frames captured so far
  teardownLog,            \* steps of the most recent local teardown
  transition,             \* history: <<from, to>> of the last setConnectionStatus
  limit,                  \* what this run explores (never changes)
  prompt,                 \* App: useState prompt
  appState,               \* App: useState appState
  generatedImages,        \* App: useState generatedImages
  selectedImageIndex,     \* App: useState selectedImageIndex
  error,                  \* App: useState error ("null" or a message)
  searchEnabled,          \* App: useState searchEnabled
  isRefining,             \* App: useState isRefining
  isSuggestingStyles,     \* App: useState isSuggestingStyles
  selectedParams,         \* App: useState selectedParams
  refineCall,             \* App: the handleRefinePrompt call awaiting its request
  styleCall,              \* App: the handleSmartStyle call awaiting its request
  genCall,                \* App: the handleGenerate call and the await it is at
  ttsCall,                \* App: the playTTS call and the await it is at
  ttsNodes,               \* App: the one-shot source nodes playTTS has started
  timers,                 \* App: pending setTimeout(() => setError(null)) callbacks
  lastCall                \* history: the request function that returned last

vars == <<mounted, isListening, connectionStatus, sessionRef,
          audioContextInputRef, audioContextOutputRef, streamRef, processorRef,
          nextStartTimeRef, sourceNodesRef, attempts, sess, now, msgs, handles,
          transcripts, frames, teardownLog, transition, limit,
          prompt, appState, generatedImages, selectedImageIndex, error,
          searchEnabled, isRefining, isSuggestingStyles, selectedParams,
          refineCall, styleCall, genCall, ttsCall, ttsNodes, timers, lastCall>>

ctlVars   == <<isListening, connectionStatus, sessionRef, audioContextInputRef,
               audioContextOutputRef, streamRef, processorRef, attempts>>
envVars   == <<now, transcripts, frames, limit>>
histVars  == <<teardownLog, transition>>
schedVars == <<nextStartTimeRef, sourceNodesRef, handles>>
appVars   == <<prompt, appState, generatedImages, selectedImageIndex, error,
               searchEnabled, isRefining, isSuggestingStyles, selectedParams,
               refineCall, styleCall, genCall, ttsCall, ttsNodes, timers, lastCall>>
voiceVars == <<mounted, ctlVars, schedVars, sess, msgs, envVars, histVars>>

\* Math.max with a defect: the second argument is taken
MaxTakesSecond(a, b) == b

Max(a, b) == IF a >= b THEN a ELSE b

\* the resources of a startSession call that has not happened yet
NoSession ==
  [phase   |-> "unused",   \* unused | awaitMic | failed | running
   inCtx   |-> "none",     \* none | open | closed      (input AudioContext)
   stream  |-> "none",     \* none | live | stopped     (MediaStream tracks)
   proc    |-> "none",     \* none | connected | disconnected
   procCtx |-> 0,          \* the input context the processor was created on
   conn    |-> "none",     \* none | pending | open | error | closed
   resolved|-> FALSE,      \* sessionPromise has resolved
   queue   |-> <<>>,       \* reactions registered on the pending promise
   wire    |-> <<>>,       \* calls made on the session, in call order
   captured|-> <<>>,       \* history: the frames its onaudioprocess produced
   entered |-> "none",     \* history: connectionStatus when startSession was entered
   errFired|-> FALSE]      \* the onError callback has run

\* ---- App: values ---------------------------------------------------------
\* A prompt is its typed text and the tags that were joined onto it.
EmptyPrompt == [text |-> "", tags |-> {}]
UserPrompts == {[text |-> t, tags |-> {}] : t \in {"", " ", "cat"}}
Refined     == [text |-> "refined", tags |-> {}]   \* response.text of a refinement

\* part_001 lines 7-24, cut down to two groups of one item each
PARAMETER_GROUPS ==
  << [title |-> "style", items |-> <<"Anime">>],
     [title |-> "light", items |-> <<"Bokeh">>] >>

NoCall == [stage |-> "idle", prompt |-> EmptyPrompt, selected |-> {}]

\* App's useState initial values, part_001 lines 35-47
BootApp ==
  /\ prompt = EmptyPrompt
  /\ appState = "IDLE"
  /\ generatedImages = <<>>
  /\ selectedImageIndex = 0
  /\ error = "null"
  /\ searchEnabled = FALSE
  /\ isRefining = FALSE
  /\ isSuggestingStyles = FALSE
  /\ selectedParams = {}
  /\ refineCall = NoCall
  /\ styleCall = NoCall
  /\ genCall = NoCall
  /\ ttsCall = NoCall
  /\ ttsNodes = <<>>
  /\ timers = 0
  /\ lastCall = [fn |-> "none", failed |-> FALSE, arg |-> EmptyPrompt,
                 groups |-> <<>>, result |-> [raised |-> FALSE]]

Boot ==
  /\ BootApp
  /\ mounted = TRUE
  /\ isListening = FALSE
  /\ connectionStatus = "disconnected"
  /\ sessionRef = 0
  /\ audioContextInputRef = 0
  /\ audioContextOutputRef = "null"
  /\ streamRef = 0
  /\ processorRef = 0
  /\ nextStartTimeRef = 0
  /\ sourceNodesRef = {}
  /\ attempts = 0
  /\ sess = [n \in Sessions |-> NoSession]
  /\ now = 0
  /\ msgs = <<>>
  /\ handles = <<>>
  /\ transcripts = <<>>
  /\ frames = 0
  /\ teardownLog = <<>>
  /\ transition = <<"disconnected", "disconnected">>

\* ---- helpers ------------------------------------------------------------

\* the calls a reaction makes on the resolved session
sendOp(f) == [op |-> "send", f |-> f]    \* session.sendRealtimeInput(frame f)
closeOp   == [op |-> "close", f |-> 0]   \* session.close()

\* thenOn with a defect: the call is made only if the session is already there
thenOnIfResolved(S, n, r) ==
  IF S[n].resolved THEN [S EXCEPT ![n].wire = Append(@, r)] ELSE S

\* promise.then(r) on the sessionPromise of call n: the reaction runs at once
\* (next microtask) when the promise has resolved, else it is queued
thenOn(S, n, r) ==
  IF S[n].resolved
    THEN [S EXCEPT ![n].wire = Append(@, r)]
    ELSE [S EXCEPT ![n].queue = Append(@, r)]

\* node.stop() on every node of the active set
stopNodes(H, active) ==
  [i \in DOMAIN H |-> IF i \in active THEN [H[i] EXCEPT !.st = "stopped"] ELSE H[i]]

\* history: every message that has arrived so far has now seen a flush
markFlushed(M) == [i \in DOMAIN M |-> [M[i] EXCEPT !.flushed = TRUE]]

\* flush with a defect: the cursor is left where it was
flushKeepsCursor(H, active, cursor, M) ==
  [H |-> stopNodes(H, active), active |-> {}, cursor |-> cursor, M |-> markFlushed(M)]

\* flush with a defect: the cursor is moved back, but not to 0
flushRewindsCursor(H, active, cursor, M) ==
  [H |-> stopNodes(H, active), active |-> {},
   cursor |-> IF cursor > 1 THEN 1 ELSE 0, M |-> markFlushed(M)]

\* the flush, lines 166-171 and 233-235, applied to the scheduler state
\* <<H, active, cursor>> and the history M: stop every active node, clear the
\* set, reset the cursor
flush(H, active, cursor, M) ==
  [H |-> stopNodes(H, active), active |-> {}, cursor |-> 0, M |-> markFlushed(M)]

\* stopAudio with a defect: the tracks of the stream are not stopped
stopAudioKeepsTracks(S, aref, stref, pref) ==
  [n \in Sessions |->
     [S[n] EXCEPT !.inCtx  = IF aref = n  THEN "closed" ELSE @,
                  !.proc   = IF pref = n  THEN "disconnected" ELSE @]]

\* stopAudio(), lines 154-165: release the capture resources the refs hold
stopAudio(S, aref, stref, pref) ==
  [n \in Sessions |->
     [S[n] EXCEPT !.inCtx  = IF aref = n  THEN "closed" ELSE @,
                  !.stream = IF stref = n THEN "stopped" ELSE @,
                  !.proc   = IF pref = n  THEN "disconnected" ELSE @]]

\* ---- the [isListening] effect, lines 272-284 ----------------------------
\* Called by every handler that changes isListening, with the values the
\* handler leaves behind: l = isListening, st = connectionStatus, S = sess and
\* the four refs.  It runs the effect's branch on them.
startBranch(l, st)  == mounted /\ l /\ st = "disconnected"
stopBranch(l, st)   == mounted /\ ~l /\ st = "connected"

ToggleEffect(l, st, S, sref, aref, stref, pref) ==
  /\ isListening' = l
  /\ IF startBranch(l, st) THEN
       \* startSession() up to the await of getUserMedia, lines 175-185
       /\ attempts < limit.sessions
       /\ attempts' = attempts + 1
       /\ connectionStatus' = "connecting"
       /\ transition' = <<st, "connecting">>
       /\ audioContextOutputRef' =
            IF audioContextOutputRef = "null" THEN "open" ELSE audioContextOutputRef
       /\ audioContextInputRef' = attempts + 1
       /\ sess' = [S EXCEPT ![attempts + 1].phase = "awaitMic",
                            ![attempts + 1].inCtx = "open",
                            ![attempts + 1].entered = st]
       /\ sessionRef' = sref /\ streamRef' = stref /\ processorRef' = pref
       /\ UNCHANGED <<schedVars, msgs, teardownLog>>
     ELSE IF stopBranch(l, st) THEN
       \* lines 276-281
       /\ sess' = IF sref = 0 THEN stopAudio(S, aref, stref, pref)
                  ELSE thenOn(stopAudio(S, aref, stref, pref), sref, closeOp)
       /\ audioContextInputRef' = 0 /\ streamRef' = 0 /\ processorRef' = 0
       /\ LET r == flush(handles, sourceNodesRef, nextStartTimeRef, msgs)
          IN /\ handles' = r.H
             /\ sourceNodesRef' = r.active
             /\ nextStartTimeRef' = r.cursor
             /\ msgs' = r.M
       /\ sessionRef' = 0
       /\ connectionStatus' = "disconnected"
       /\ transition' = <<st, "disconnected">>
       /\ teardownLog' =
            <<[step |-> "capture", s |-> sref], [step |-> "flush", s |-> sref]>>
            \o (IF sref # 0 /\ S[sref].resolved
                  THEN <<[step |-> "close", s |-> sref]>> ELSE <<>>)
       /\ UNCHANGED <<attempts, audioContextOutputRef>>
     ELSE
       /\ connectionStatus' = st
       /\ transition' = IF st # connectionStatus THEN <<connectionStatus, st>>
                        ELSE transition
       /\ sess' = S
       /\ sessionRef' = sref /\ audioContextInputRef' = aref
       /\ streamRef' = stref /\ processorRef' = pref
       /\ UNCHANGED <<attempts, audioContextOutputRef, schedVars, msgs, teardownLog>>

\* setConnectionStatus on an unmounted component changes nothing
setStatus(st) == IF mounted THEN st ELSE connectionStatus

\* ---- user ---------------------------------------------------------------

\* the button's onClick, line 303: onToggleListening flips the intent
UserToggle ==
  /\ mounted
  /\ ToggleEffect(~isListening, connectionStatus, sess,
                  sessionRef, audioContextInputRef, streamRef, processorRef)
  /\ UNCHANGED <<mounted, envVars, appVars>>

\* ---- startSession, lines 174-269 ----------------------------------------

\* the catch block, lines 264-268, entered from call n
startFailed(S, n, stref) ==
  ToggleEffect(~isListening, setStatus("disconnected"),
               [S EXCEPT ![n].phase = "failed"],
               sessionRef, audioContextInputRef, stref, processorRef)

\* getUserMedia rejects
MicDenied(n) ==
  /\ sess[n].phase = "awaitMic"
  /\ startFailed(sess, n, streamRef)
  /\ UNCHANGED <<mounted, envVars, appVars>>

\* getUserMedia resolves: lines 185-262 run to the end, or throw at line 187
\* when stopAudio has nulled audioContextInputRef during the await
MicGranted(n) ==
  /\ sess[n].phase = "awaitMic"
  /\ IF audioContextInputRef = 0
       THEN startFailed([sess EXCEPT ![n].stream = "live"], n, n)
       ELSE /\ sess' = [sess EXCEPT ![n].phase = "running",
                                    ![n].stream = "live",
                                    ![n].proc = "connected",
                                    ![n].procCtx = audioContextInputRef,
                                    ![n].conn = "pending"]
            /\ streamRef' = n
            /\ processorRef' = n
            /\ sessionRef' = n
            /\ UNCHANGED <<isListening, connectionStatus, audioContextInputRef,
                           audioContextOutputRef, attempts, schedVars, msgs,
                           teardownLog, transition>>
  /\ UNCHANGED <<mounted, envVars, appVars>>

\* ---- connection callbacks, lines 192-246 --------------------------------

\* onOpen, lines 192-195
OnOpen(n) ==
  /\ sess[n].conn = "pending"
  /\ sess' = [sess EXCEPT ![n].conn = "open"]
  /\ connectionStatus' = setStatus("connected")
  /\ transition' = IF mounted THEN <<connectionStatus, "connected">> ELSE transition
  /\ UNCHANGED <<mounted, isListening, sessionRef, audioContextInputRef,
                 audioContextOutputRef, streamRef, processorRef, attempts,
                 schedVars, msgs, envVars, appVars, teardownLog>>

\* sessionPromise resolves after the connection has opened: the queued
\* reactions run in registration order
PromiseResolved(n) ==
  /\ sess[n].conn = "open"
  /\ ~sess[n].resolved
  /\ sess' = [sess EXCEPT ![n].resolved = TRUE,
                          ![n].wire = @ \o sess[n].queue,
                          ![n].queue = <<>>]
  /\ teardownLog' =
       IF \E i \in DOMAIN sess[n].queue : sess[n].queue[i] = closeOp
         THEN Append(teardownLog, [step |-> "close", s |-> n])
         ELSE teardownLog
  /\ UNCHANGED <<mounted, ctlVars, schedVars, msgs, envVars, appVars, transition>>

\* onError, lines 238-242
OnError(n) ==
  /\ sess[n].conn \in {"pending", "open"}
  /\ ToggleEffect(~isListening, setStatus("disconnected"),
                  [sess EXCEPT ![n].conn = "error", ![n].errFired = TRUE],
                  sessionRef, audioContextInputRef, streamRef, processorRef)
  /\ UNCHANGED <<mounted, envVars, appVars>>

\* onClose, lines 243-246
OnClose(n) ==
  /\ sess[n].conn \in {"open", "error"}
  /\ sess' = [sess EXCEPT ![n].conn = "closed"]
  /\ connectionStatus' = setStatus("disconnected")
  /\ transition' = IF mounted THEN <<connectionStatus, "disconnected">> ELSE transition
  /\ UNCHANGED <<mounted, isListening, sessionRef, audioContextInputRef,
                 audioContextOutputRef, streamRef, processorRef, attempts,
                 schedVars, msgs, envVars, appVars, teardownLog>>

\* ---- capture, lines 252-259 ---------------------------------------------

\* processor.onaudioprocess of call n fires with the next frame
Capture(n) ==
  /\ frames < limit.frames
  /\ sess[n].proc = "connected"
  /\ sess[sess[n].procCtx].inCtx = "open"
  /\ frames' = frames + 1
  /\ sess' = [thenOn(sess, n, sendOp(frames + 1)) EXCEPT
                ![n].captured = Append(@, [f |-> frames + 1,
                                           queued |-> ~sess[n].resolved])]
  /\ UNCHANGED <<mounted, ctlVars, schedVars, now, msgs, transcripts, histVars, limit, appVars>>

\* ---- inbound message router, lines 196-237 ------------------------------

Texts == {"none", "empty", "some"}   \* no inputTranscription | text "" | a text

\* EmitTranscript with a defect: the inner check of the text (line 200) is missing
EmitTranscriptUnchecked(m, i) == IF m.text # "none" THEN <<i>> ELSE <<>>

\* lines 198-203: the onTranscript calls message number i makes; the text of
\* message i is represented by i
EmitTranscript(m, i) == IF m.text = "some" THEN <<i>> ELSE <<>>

\* hasAudio with a defect: the payload is not looked at
hasAudioIgnoresPayload(m) == audioContextOutputRef # "null"

\* line 207: the audio branch is taken
hasAudio(m) == m.audio > 0 /\ audioContextOutputRef # "null"

\* outcomes of decodeAudioData (utils/audioUtils): a buffer or a rejection
decodeAudioData == {"ok", "error"}

\* lines 232-236 applied to scheduler state <<H, active, cursor, M>>
interruption(m, H, active, cursor, M) ==
  IF m.intr
    THEN flush(H, active, cursor, M)
    ELSE [H |-> H, active |-> active, cursor |-> cursor, M |-> M]

\* onMessage up to its first await (or to its end when there is no audio)
OnMessage(n) ==
  /\ sess[n].conn = "open"
  /\ Len(msgs) < limit.msgs
  /\ \E t \in Texts, a \in {0} \cup Durations, x \in BOOLEAN :
       LET i == Len(msgs) + 1
           m == [text |-> t, audio |-> a, intr |-> x, dec |-> "none", flushed |-> FALSE]
       IN /\ transcripts' = transcripts \o EmitTranscript(m, i)
          /\ IF hasAudio(m)
               THEN /\ nextStartTimeRef' = Max(nextStartTimeRef, now)
                    /\ msgs' = Append(msgs, [m EXCEPT !.dec = "pending"])
                    /\ UNCHANGED <<sourceNodesRef, handles>>
               ELSE LET r == interruption(m, handles, sourceNodesRef,
                                          nextStartTimeRef, Append(msgs, m))
                    IN /\ handles' = r.H
                       /\ sourceNodesRef' = r.active
                       /\ nextStartTimeRef' = r.cursor
                       /\ msgs' = r.M
  /\ UNCHANGED <<mounted, ctlVars, sess, now, frames, histVars, limit, appVars>>

\* lines 218-236: the decode of message i has produced its buffer
schedule(i) ==
  LET h  == Len(handles) + 1
      H1 == Append(handles, [msg |-> i, start |-> nextStartTimeRef,
                             dur |-> msgs[i].audio, at |-> now, st |-> "playing",
                             evt |-> FALSE])
      r  == interruption(msgs[i], H1, sourceNodesRef \cup {h},
                         nextStartTimeRef + msgs[i].audio,
                         [msgs EXCEPT ![i].dec = "ok"])
  IN /\ handles' = r.H
     /\ sourceNodesRef' = r.active
     /\ nextStartTimeRef' = r.cursor
     /\ msgs' = r.M

\* DecodeSettled with a defect: a rejected decode resets the cursor
DecodeSettledResetsCursor(i) ==
  /\ msgs[i].dec = "pending"
  /\ \E outcome \in decodeAudioData :
       IF outcome = "ok"
         THEN schedule(i)
         ELSE /\ msgs' = [msgs EXCEPT ![i].dec = "failed"]
              /\ nextStartTimeRef' = 0
              /\ UNCHANGED <<sourceNodesRef, handles>>
  /\ UNCHANGED <<mounted, ctlVars, sess, envVars, appVars, histVars>>

\* the awaited decode of message i settles; a rejection ends the handler
DecodeSettled(i) ==
  /\ msgs[i].dec = "pending"
  /\ \E outcome \in decodeAudioData :
       IF outcome = "ok"
         THEN schedule(i)
         ELSE /\ msgs' = [msgs EXCEPT ![i].dec = "failed"]
              /\ UNCHANGED schedVars
  /\ UNCHANGED <<mounted, ctlVars, sess, envVars, appVars, histVars>>

\* Ended with a defect: the listener does not delete the node from the set
EndedKeepsNode(h) ==
  /\ handles[h].st = "playing"
  /\ now >= Max(handles[h].start, handles[h].at) + handles[h].dur
  /\ handles' = [handles EXCEPT ![h].st = "ended", ![h].evt = TRUE]
  /\ sourceNodesRef' = sourceNodesRef
  /\ UNCHANGED <<mounted, ctlVars, nextStartTimeRef, sess, msgs, envVars, appVars,
                 histVars>>

\* the 'ended' listener of node h, lines 222-224, when node h has played its
\* buffer to the end
Ended(h) ==
  /\ handles[h].st = "playing"
  /\ now >= Max(handles[h].start, handles[h].at) + handles[h].dur
  /\ handles' = [handles EXCEPT ![h].st = "ended", ![h].evt = TRUE]
  /\ sourceNodesRef' = sourceNodesRef \ {h}
  /\ UNCHANGED <<mounted, ctlVars, nextStartTimeRef, sess, msgs, envVars, appVars,
                 histVars>>

\* the same listener when node h was stopped by node.stop() (lines 169, 233):
\* a stopped node fires its one 'ended' event too, in a later task
EndedStopped(h) ==
  /\ handles[h].st = "stopped"
  /\ ~handles[h].evt
  /\ handles' = [handles EXCEPT ![h].evt = TRUE]
  /\ sourceNodesRef' = sourceNodesRef \ {h}
  /\ UNCHANGED <<mounted, ctlVars, nextStartTimeRef, sess, msgs, envVars, appVars,
                 histVars>>

\* the output context's clock advances
Tick ==
  /\ audioContextOutputRef = "open"
  /\ now < limit.time
  /\ now' = now + 1
  /\ UNCHANGED <<mounted, ctlVars, schedVars, sess, msgs, transcripts, frames,
                 histVars, limit, appVars>>

\* ---- unmount cleanup, lines 287-298 -------------------------------------
Unmount ==
  /\ mounted
  /\ mounted' = FALSE
  /\ sess' = IF sessionRef = 0
               THEN stopAudio(sess, audioContextInputRef, streamRef, processorRef)
               ELSE thenOn(stopAudio(sess, audioContextInputRef, streamRef,
                                     processorRef), sessionRef, closeOp)
  /\ audioContextInputRef' = 0 /\ streamRef' = 0 /\ processorRef' = 0
  /\ LET r == flush(handles, sourceNodesRef, nextStartTimeRef, msgs)
     IN /\ handles' = r.H
        /\ sourceNodesRef' = r.active
        /\ nextStartTimeRef' = r.cursor
        /\ msgs' = r.M
  /\ audioContextOutputRef' =
       IF audioContextOutputRef = "null" THEN "null" ELSE "closed"
  /\ teardownLog' =
       <<[step |-> "capture", s |-> sessionRef], [step |-> "flush", s |-> sessionRef]>>
       \o (IF audioContextOutputRef # "null"
             THEN <<[step |-> "release", s |-> sessionRef]>> ELSE <<>>)
       \o (IF sessionRef # 0 /\ sess[sessionRef].resolved
             THEN <<[step |-> "close", s |-> sessionRef]>> ELSE <<>>)
  /\ UNCHANGED <<isListening, connectionStatus, sessionRef, attempts, envVars, appVars,
                 transition>>

\* ======================================================================
\* App component (src/unnamed/part_001) and its request functions
\* ======================================================================

\* ---- request functions, geminiService.ts lines 7-106 ---------------------
\* Each takes, besides its arguments, the reply of the backend call it awaits.

\* replies of ai.models.generateImages: a rejection with a message, a response
\* without generatedImages, or a response with count images
ImageReplies ==
  {[kind |-> "throw", message |-> m, count |-> 0] : m \in {"", "quota"}}
    \cup {[kind |-> "noImages", message |-> "", count |-> 0]}
    \cup {[kind |-> "images", message |-> "", count |-> c] : c \in {0, 2}}

\* replies of generateContent for a refinement: rejection, no text, a text
TextReplies == {"throw", "noText", "text"}

\* replies of generateContent for a style suggestion: rejection, no text, a
\* text that is not JSON, JSON that is not an array, a JSON array of strings
StyleItems == {"Anime", "Bokeh", "Gothic"}
StyleReplies ==
  {[kind |-> k, items |-> {}] : k \in {"throw", "noText", "badJson", "notArray"}}
    \cup {[kind |-> "array", items |-> T] : T \in SUBSET StyleItems}

\* replies of generateContent for speech: rejection, no audio part, audio data
SpeechReplies == {"throw", "noAudio", "audio"}

imageFailed(reply)  == reply.kind \in {"throw", "noImages"}
styleFailed(reply)  == reply.kind \in {"throw", "badJson"}

\* generateImage with a defect: a failure is answered with an empty list
generateImageSwallows(finalPrompt, reply) ==
  IF imageFailed(reply)
    THEN [raised |-> FALSE, message |-> "", value |-> <<>>]
    ELSE [raised |-> FALSE, message |-> "", value |-> [k \in 1..reply.count |-> k]]

\* generateImage, lines 7-28: rethrows what the backend call throws
generateImage(finalPrompt, reply) ==
  IF reply.kind = "throw"
    THEN [raised |-> TRUE, message |-> reply.message, value |-> <<>>]
  ELSE IF reply.kind = "noImages"
    THEN [raised |-> TRUE, message |-> "No images generated", value |-> <<>>]
  ELSE [raised |-> FALSE, message |-> "", value |-> [k \in 1..reply.count |-> k]]

\* refinePromptWithSearch with a defect: the catch block rethrows
refinePromptWithSearchRethrows(originalPrompt, reply) ==
  [raised |-> reply = "throw",
   value  |-> IF reply = "text" THEN Refined ELSE originalPrompt]

\* refinePromptWithSearch, lines 31-51
refinePromptWithSearch(originalPrompt, reply) ==
  [raised |-> FALSE,
   value  |-> IF reply = "text" THEN Refined ELSE originalPrompt]

\* parameterGroups.flatMap(g => g.items), line 57, as a set
allItems(parameterGroups) ==
  UNION {{parameterGroups[g].items[k] : k \in DOMAIN parameterGroups[g].items}
           : g \in DOMAIN parameterGroups}

\* suggestStyles, lines 54-82: the parsed JSON is returned as it is; list tells
\* whether it is an array
suggestStyles(p, parameterGroups, reply) ==
  IF reply.kind \in {"throw", "noText", "badJson"}
    THEN [raised |-> FALSE, list |-> TRUE, items |-> {}]
  ELSE IF reply.kind = "notArray"
    THEN [raised |-> FALSE, list |-> FALSE, items |-> {}]
  ELSE [raised |-> FALSE, list |-> TRUE, items |-> reply.items]

\* generateSpeech, lines 85-106
generateSpeech(text, reply) ==
  [raised |-> FALSE, value |-> IF reply = "audio" THEN "audio" ELSE "null"]

\* ---- App handlers -------------------------------------------------------
truthy(p)    == p.text # "" \/ p.tags # {}         \* !!prompt
trimEmpty(p) == p.text \in {"", " "} /\ p.tags = {}   \* !prompt.trim()

\* the textarea's onChange, line 236
SetPrompt(p) ==
  /\ prompt # p
  /\ prompt' = p
  /\ UNCHANGED <<appState, generatedImages, selectedImageIndex, error,
                 searchEnabled, isRefining, isSuggestingStyles, selectedParams,
                 refineCall, styleCall, genCall, ttsCall, ttsNodes, timers,
                 lastCall, voiceVars>>

\* toggleParam, lines 80-88
toggleParam(param) ==
  /\ selectedParams' = IF param \in selectedParams
                         THEN selectedParams \ {param}
                         ELSE selectedParams \cup {param}
  /\ UNCHANGED <<prompt, appState, generatedImages, selectedImageIndex, error,
                 searchEnabled, isRefining, isSuggestingStyles,
                 refineCall, styleCall, genCall, ttsCall, ttsNodes, timers,
                 lastCall, voiceVars>>

\* the search switch, line 277
ToggleSearch ==
  /\ searchEnabled' = ~searchEnabled
  /\ UNCHANGED <<prompt, appState, generatedImages, selectedImageIndex, error,
                 isRefining, isSuggestingStyles, selectedParams,
                 refineCall, styleCall, genCall, ttsCall, ttsNodes, timers,
                 lastCall, voiceVars>>

\* handleRefinePrompt up to its await, lines 90-95; the button is disabled
\* while isRefining or the prompt is empty (line 218)
handleRefinePrompt ==
  /\ ~isRefining /\ truthy(prompt)
  /\ ~trimEmpty(prompt)
  /\ isRefining' = TRUE
  /\ error' = "null"
  /\ refineCall' = [NoCall EXCEPT !.stage = "refine", !.prompt = prompt]
  /\ UNCHANGED <<prompt, appState, generatedImages, selectedImageIndex,
                 searchEnabled, isSuggestingStyles, selectedParams,
                 styleCall, genCall, ttsCall, ttsNodes, timers,
                 lastCall, voiceVars>>

\* handleRefinePrompt after its await, lines 95-101
RefineSettled ==
  /\ refineCall.stage = "refine"
  /\ \E reply \in TextReplies :
       LET r == refinePromptWithSearch(refineCall.prompt, reply)
       IN /\ lastCall' = [fn |-> "refinePromptWithSearch", failed |-> reply = "throw",
                          arg |-> refineCall.prompt, groups |-> <<>>, result |-> r]
          /\ IF r.raised
               THEN error' = "refineFailed" /\ prompt' = prompt
               ELSE error' = error /\ prompt' = r.value
  /\ isRefining' = FALSE
  /\ refineCall' = NoCall
  /\ UNCHANGED <<appState, generatedImages, selectedImageIndex,
                 searchEnabled, isSuggestingStyles, selectedParams,
                 styleCall, genCall, ttsCall, ttsNodes, timers, voiceVars>>

\* handleSmartStyle up to its await, lines 104-112; the button is disabled
\* while isSuggestingStyles (line 295)
handleSmartStyle ==
  /\ ~isSuggestingStyles
  /\ IF trimEmpty(prompt)
       THEN /\ timers < MaxTimers
            /\ error' = "describeFirst"
            /\ timers' = timers + 1
            /\ UNCHANGED <<isSuggestingStyles, styleCall>>
       ELSE /\ isSuggestingStyles' = TRUE
            /\ styleCall' = [NoCall EXCEPT !.stage = "suggest", !.prompt = prompt,
                                           !.selected = selectedParams]
            /\ UNCHANGED <<error, timers>>
  /\ UNCHANGED <<prompt, appState, generatedImages, selectedImageIndex,
                 searchEnabled, isRefining, selectedParams,
                 refineCall, genCall, ttsCall, ttsNodes, lastCall, voiceVars>>

\* setTimeout(() => setError(null), 2000), line 107
TimerFires ==
  /\ timers > 0
  /\ timers' = timers - 1
  /\ error' = "null"
  /\ UNCHANGED <<prompt, appState, generatedImages, selectedImageIndex,
                 searchEnabled, isRefining, isSuggestingStyles, selectedParams,
                 refineCall, styleCall, genCall, ttsCall, ttsNodes,
                 lastCall, voiceVars>>

\* handleSmartStyle after its await, lines 112-120: newSet is built from the
\* selectedParams of the render in which the handler was called; forEach on a
\* value that is not an array throws into the catch block
SuggestSettled ==
  /\ styleCall.stage = "suggest"
  /\ \E reply \in StyleReplies :
       LET r == suggestStyles(styleCall.prompt, PARAMETER_GROUPS, reply)
       IN /\ lastCall' = [fn |-> "suggestStyles", failed |-> styleFailed(reply),
                          arg |-> styleCall.prompt, groups |-> PARAMETER_GROUPS,
                          result |-> r]
          /\ selectedParams' = IF ~r.raised /\ r.list
                                 THEN styleCall.selected \cup r.items
                                 ELSE selectedParams
  /\ isSuggestingStyles' = FALSE
  /\ styleCall' = NoCall
  /\ UNCHANGED <<prompt, appState, generatedImages, selectedImageIndex, error,
                 searchEnabled, isRefining,
                 refineCall, genCall, ttsCall, ttsNodes, timers, voiceVars>>

\* lines 139-144: the selected tags joined onto the prompt
withParams(p, params) == [text |-> p.text, tags |-> p.tags \cup params]

\* err.message || the default message, line 164
errorMessage(r) == IF r.message # "" THEN r.message ELSE "generationFailed"

\* handleGenerate up to its first await, lines 123-152; the button is disabled
\* unless appState is IDLE and there is a prompt or a selected tag (line 340)
handleGenerate ==
  /\ appState = "IDLE" /\ (truthy(prompt) \/ selectedParams # {})
  /\ ~(trimEmpty(prompt) /\ selectedParams = {})
  /\ appState' = "GENERATING_IMAGE"
  /\ error' = "null"
  /\ generatedImages' = <<>>
  /\ selectedImageIndex' = 0
  /\ genCall' = [NoCall EXCEPT
                   !.stage  = IF searchEnabled THEN "refine" ELSE "generate",
                   !.prompt = withParams(prompt, selectedParams)]
  /\ UNCHANGED <<prompt, searchEnabled, isRefining, isSuggestingStyles,
                 selectedParams, refineCall, styleCall, ttsCall, ttsNodes,
                 timers, lastCall, voiceVars>>

\* handleGenerate after the await of refinePromptWithSearch, lines 147-152
GenerateRefined ==
  /\ genCall.stage = "refine"
  /\ \E reply \in TextReplies :
       LET r == refinePromptWithSearch(genCall.prompt, reply)
       IN /\ lastCall' = [fn |-> "refinePromptWithSearch", failed |-> reply = "throw",
                          arg |-> genCall.prompt, groups |-> <<>>, result |-> r]
          /\ IF r.raised
               THEN /\ error' = "generationFailed"
                    /\ appState' = "IDLE"
                    /\ genCall' = NoCall
                    /\ prompt' = prompt
               ELSE /\ prompt' = r.value
                    /\ genCall' = [genCall EXCEPT !.stage = "generate",
                                                  !.prompt = r.value]
                    /\ UNCHANGED <<error, appState>>
  /\ UNCHANGED <<generatedImages, selectedImageIndex, searchEnabled, isRefining,
                 isSuggestingStyles, selectedParams, refineCall, styleCall,
                 ttsCall, ttsNodes, timers, voiceVars>>

\* GenerateSettled with a defect: setAppState(IDLE) stands at the end of the
\* try block instead of in a finally block
GenerateSettledNoFinally ==
  /\ genCall.stage = "generate"
  /\ \E reply \in ImageReplies :
       LET r == generateImage(genCall.prompt, reply)
       IN /\ lastCall' = [fn |-> "generateImage", failed |-> imageFailed(reply),
                          arg |-> genCall.prompt, groups |-> <<>>, result |-> r]
          /\ IF r.raised
               THEN /\ error' = errorMessage(r)
                    /\ generatedImages' = generatedImages
                    /\ appState' = appState
               ELSE /\ error' = error
                    /\ generatedImages' =
                         [k \in DOMAIN r.value |->
                            [url |-> r.value[k], prompt |-> genCall.prompt]]
                    /\ appState' = "IDLE"
  /\ genCall' = NoCall
  /\ UNCHANGED <<prompt, selectedImageIndex, searchEnabled, isRefining,
                 isSuggestingStyles, selectedParams, refineCall, styleCall,
                 ttsCall, ttsNodes, timers, voiceVars>>

\* handleGenerate after the await of generateImage, lines 152-167
GenerateSettled ==
  /\ genCall.stage = "generate"
  /\ \E reply \in ImageReplies :
       LET r == generateImage(genCall.prompt, reply)
       IN /\ lastCall' = [fn |-> "generateImage", failed |-> imageFailed(reply),
                          arg |-> genCall.prompt, groups |-> <<>>, result |-> r]
          /\ IF r.raised
               THEN /\ error' = errorMessage(r)
                    /\ generatedImages' = generatedImages
               ELSE /\ error' = error
                    /\ generatedImages' =
                         [k \in DOMAIN r.value |->
                            [url |-> r.value[k], prompt |-> genCall.prompt]]
  /\ appState' = "IDLE"
  /\ genCall' = NoCall
  /\ UNCHANGED <<prompt, selectedImageIndex, searchEnabled, isRefining,
                 isSuggestingStyles, selectedParams, refineCall, styleCall,
                 ttsCall, ttsNodes, timers, voiceVars>>

\* playTTS up to its first await, lines 59-62; its button exists while an
\* image is shown (line 393).  One utterance is followed at a time, and
\* MaxOneShots in all.
playTTS ==
  /\ generatedImages # <<>>
  /\ ttsCall.stage = "idle"
  /\ Len(ttsNodes) < MaxOneShots
  /\ ttsCall' = [NoCall EXCEPT !.stage = "speech",
                   !.prompt = generatedImages[selectedImageIndex + 1].prompt]
  /\ UNCHANGED <<prompt, appState, generatedImages, selectedImageIndex, error,
                 searchEnabled, isRefining, isSuggestingStyles, selectedParams,
                 refineCall, styleCall, genCall, ttsNodes, timers,
                 lastCall, voiceVars>>

\* playTTS after the await of generateSpeech, lines 62-64
SpeechSettled ==
  /\ ttsCall.stage = "speech"
  /\ \E reply \in SpeechReplies :
       LET r == generateSpeech(ttsCall.prompt, reply)
       IN /\ lastCall' = [fn |-> "generateSpeech", failed |-> reply = "throw",
                          arg |-> ttsCall.prompt, groups |-> <<>>, result |-> r]
          /\ ttsCall' = IF ~r.raised /\ r.value = "audio"
                          THEN [ttsCall EXCEPT !.stage = "decode"]
                          ELSE NoCall
  /\ UNCHANGED <<prompt, appState, generatedImages, selectedImageIndex, error,
                 searchEnabled, isRefining, isSuggestingStyles, selectedParams,
                 refineCall, styleCall, genCall, ttsNodes, timers, voiceVars>>

\* playTTS after the await of decodeAudioData, lines 64-77: source.start()
\* plays the buffer from the present moment on.  The clocks of the App's
\* output context and of the voice assistant's run at the same rate, so the
\* moment is given as the value of now.
SpeechDecoded ==
  /\ ttsCall.stage = "decode"
  /\ \E outcome \in decodeAudioData, d \in Durations :
       ttsNodes' = IF outcome = "ok"
                     THEN Append(ttsNodes, [at |-> now, dur |-> d])
                     ELSE ttsNodes
  /\ ttsCall' = NoCall
  /\ UNCHANGED <<prompt, appState, generatedImages, selectedImageIndex, error,
                 searchEnabled, isRefining, isSuggestingStyles, selectedParams,
                 refineCall, styleCall, genCall, timers, lastCall, voiceVars>>

\* ---- the request functions called on their own -------------------------
\* Any caller applies a request function to any argument; the backend gives
\* any reply.
AnyPrompts == {[text |-> t, tags |-> T] :
                 t \in {"", " ", "cat", "refined"}, T \in SUBSET StyleItems}
AnyGroups  == {<<>>, <<PARAMETER_GROUPS[1]>>, PARAMETER_GROUPS}

CallRefine ==
  /\ \E p \in AnyPrompts, reply \in TextReplies :
       lastCall' = [fn |-> "refinePromptWithSearch", failed |-> reply = "throw",
                    arg |-> p, groups |-> <<>>,
                    result |-> refinePromptWithSearch(p, reply)]
  /\ UNCHANGED <<prompt, appState, generatedImages, selectedImageIndex, error,
                 searchEnabled, isRefining, isSuggestingStyles, selectedParams,
                 refineCall, styleCall, genCall, ttsCall, ttsNodes, timers,
                 voiceVars>>

CallSuggest ==
  /\ \E p \in AnyPrompts, g \in AnyGroups, reply \in StyleReplies :
       lastCall' = [fn |-> "suggestStyles", failed |-> styleFailed(reply),
                    arg |-> p, groups |-> g,
                    result |-> suggestStyles(p, g, reply)]
  /\ UNCHANGED <<prompt, appState, generatedImages, selectedImageIndex, error,
                 searchEnabled, isRefining, isSuggestingStyles, selectedParams,
                 refineCall, styleCall, genCall, ttsCall, ttsNodes, timers,
                 voiceVars>>

CallSpeech ==
  /\ \E p \in AnyPrompts, reply \in SpeechReplies :
       lastCall' = [fn |-> "generateSpeech", failed |-> reply = "throw",
                    arg |-> p, groups |-> <<>>,
                    result |-> generateSpeech(p, reply)]
  /\ UNCHANGED <<prompt, appState, generatedImages, selectedImageIndex, error,
                 searchEnabled, isRefining, isSuggestingStyles, selectedParams,
                 refineCall, styleCall, genCall, ttsCall, ttsNodes, timers,
                 voiceVars>>

CallImage ==
  /\ \E p \in AnyPrompts, reply \in ImageReplies :
       lastCall' = [fn |-> "generateImage", failed |-> imageFailed(reply),
                    arg |-> p, groups |-> <<>>,
                    result |-> generateImage(p, reply)]
  /\ UNCHANGED <<prompt, appState, generatedImages, selectedImageIndex, error,
                 searchEnabled, isRefining, isSuggestingStyles, selectedParams,
                 refineCall, styleCall, genCall, ttsCall, ttsNodes, timers,
                 voiceVars>>

NextServices ==
  \/ CallRefine
  \/ CallSuggest
  \/ CallSpeech
  \/ CallImage

\* the style panel of the App: the prompt, the tag buttons and
\* handleSmartStyle with its await and its timer
NextStyle ==
  \/ \E p \in UserPrompts : SetPrompt(p)
  \/ \E t \in allItems(PARAMETER_GROUPS) : toggleParam(t)
  \/ handleSmartStyle
  \/ TimerFires
  \/ SuggestSettled

\* the generation flow of the App: the prompt, the tags, the search switch
\* and handleGenerate with its two awaits
NextGenerate ==
  \/ \E p \in UserPrompts : SetPrompt(p)
  \/ \E t \in allItems(PARAMETER_GROUPS) : toggleParam(t)
  \/ ToggleSearch
  \/ handleGenerate
  \/ GenerateRefined
  \/ GenerateSettled

\* the two playback paths side by side: a live session receives fragments
\* while the App generates an image and reads its prompt aloud
NextTts ==
  \/ UserToggle
  \/ \E n \in Sessions : MicGranted(n)
  \/ \E n \in Sessions : OnOpen(n)
  \/ \E n \in Sessions : OnMessage(n)
  \/ \E i \in DOMAIN msgs : DecodeSettled(i)
  \/ \E t \in allItems(PARAMETER_GROUPS) : toggleParam(t)
  \/ handleGenerate
  \/ GenerateSettled
  \/ playTTS
  \/ SpeechSettled
  \/ SpeechDecoded

NextApp ==
  \/ \E p \in UserPrompts : SetPrompt(p)
  \/ \E t \in allItems(PARAMETER_GROUPS) : toggleParam(t)
  \/ ToggleSearch
  \/ handleRefinePrompt
  \/ RefineSettled
  \/ handleSmartStyle
  \/ TimerFires
  \/ SuggestSettled
  \/ handleGenerate
  \/ GenerateRefined
  \/ GenerateSettled
  \/ playTTS
  \/ SpeechSettled
  \/ SpeechDecoded

\* ---- specification ------------------------------------------------------
Next ==
  \/ UserToggle
  \/ \E n \in Sessions : MicDenied(n)
  \/ \E n \in Sessions : MicGranted(n)
  \/ \E n \in Sessions : OnOpen(n)
  \/ \E n \in Sessions : PromiseResolved(n)
  \/ \E n \in Sessions : OnError(n)
  \/ \E n \in Sessions : OnClose(n)
  \/ \E n \in Sessions : Capture(n)
  \/ \E n \in Sessions : OnMessage(n)
  \/ \E i \in DOMAIN msgs : DecodeSettled(i)
  \/ \E h \in DOMAIN handles : Ended(h)
  \/ \E h \in DOMAIN handles : EndedStopped(h)
  \/ Tick
  \/ Unmount
  \/ NextApp

Init ==
  /\ Boot
  /\ limit = [sessions |-> MaxSessions, msgs |-> MaxMsgs,
              frames |-> MaxFrames, time |-> MaxTime]

Spec == Init /\ [][Next]_vars

\* the session lifecycle and the capture path: every action but those of the
\* inbound message router and the playback clock
NextSession ==
  \/ UserToggle
  \/ \E n \in Sessions : MicDenied(n)
  \/ \E n \in Sessions : MicGranted(n)
  \/ \E n \in Sessions : OnOpen(n)
  \/ \E n \in Sessions : PromiseResolved(n)
  \/ \E n \in Sessions : OnError(n)
  \/ \E n \in Sessions : OnClose(n)
  \/ \E n \in Sessions : Capture(n)
  \/ Unmount

InitSession ==
  /\ Boot
  /\ limit = [sessions |-> MaxSessions, msgs |-> 0, frames |-> MaxFrames, time |-> 0]

SpecSession == InitSession /\ [][NextSession]_vars

\* SpecSession with the progress the platform gives: a getUserMedia request
\* settles, a pending connection opens or fails, and the session promise of an
\* open connection resolves.  Nothing is assumed of the user or of the remote
\* peer of an open connection.
SpecSessionFair ==
  /\ SpecSession
  /\ \A n \in Sessions :
       /\ WF_vars(MicGranted(n) \/ MicDenied(n))
       /\ WF_vars(sess[n].conn = "pending" /\ (OnOpen(n) \/ OnError(n)))
       /\ WF_vars(PromiseResolved(n))

\* the inbound path: a session is opened, messages arrive, decodes settle, the
\* clock runs, nodes end, and the scheduler is flushed by a local stop, an
\* interruption or the unmount
NextAudio ==
  \/ UserToggle
  \/ \E n \in Sessions : MicGranted(n)
  \/ \E n \in Sessions : OnOpen(n)
  \/ \E n \in Sessions : OnMessage(n)
  \/ \E i \in DOMAIN msgs : DecodeSettled(i)
  \/ \E h \in DOMAIN handles : Ended(h)
  \/ Tick
  \/ Unmount

InitAudio ==
  /\ Boot
  /\ limit = [sessions |-> AudioSessions, msgs |-> AudioMsgs,
              frames |-> 0, time |-> AudioTime]

SpecAudio == InitAudio /\ [][NextAudio]_vars

\* the message router alone: sessions open, messages arrive and decodes
\* settle in any order while the output clock stands still
NextRouter ==
  \/ UserToggle
  \/ \E n \in Sessions : MicGranted(n)
  \/ \E n \in Sessions : OnOpen(n)
  \/ \E n \in Sessions : OnMessage(n)
  \/ \E i \in DOMAIN msgs : DecodeSettled(i)

InitRouter ==
  /\ Boot
  /\ limit = [sessions |-> AudioSessions, msgs |-> RouterMsgs, frames |-> 0, time |-> 0]

SpecRouter == InitRouter /\ [][NextRouter]_vars

InitInterrupt ==
  /\ Boot
  /\ limit = [sessions |-> AudioSessions, msgs |-> IntrMsgs, frames |-> 0, time |-> 0]

SpecInterrupt == InitInterrupt /\ [][NextRouter]_vars

\* the App component alone: the voice assistant stays as constructed
InitApp ==
  /\ Boot
  /\ limit = [sessions |-> 0, msgs |-> 0, frames |-> 0, time |-> 0]

SpecApp == InitApp /\ [][NextApp]_vars

SpecServices == InitApp /\ [][NextServices]_vars

SpecGenerate == InitApp /\ [][NextGenerate]_vars

\* SpecGenerate with a backend whose calls return or fail: an awaited
\* refinePromptWithSearch or generateImage settles.  Nothing is assumed of
\* the user.
SpecGenerateFair ==
  /\ SpecGenerate
  /\ WF_vars(GenerateRefined)
  /\ WF_vars(GenerateSettled)

SpecStyle == InitApp /\ [][NextStyle]_vars

\* the playback scheduler with every event of a source node: fragments are
\* scheduled, end by themselves or are stopped by a flush, and a stopped node
\* delivers its 'ended' event afterwards
NextPlayback ==
  \/ UserToggle
  \/ \E n \in Sessions : MicGranted(n)
  \/ \E n \in Sessions : OnOpen(n)
  \/ \E n \in Sessions : OnMessage(n)
  \/ \E i \in DOMAIN msgs : DecodeSettled(i)
  \/ \E h \in DOMAIN handles : Ended(h)
  \/ \E h \in DOMAIN handles : EndedStopped(h)
  \/ Tick
  \/ Unmount

InitPlayback ==
  /\ Boot
  /\ limit = [sessions |-> AudioSessions, msgs |-> PlaybackMsgs,
              frames |-> 0, time |-> PlaybackTime]

SpecPlayback == InitPlayback /\ [][NextPlayback]_vars

InitTts ==
  /\ Boot
  /\ limit = [sessions |-> AudioSessions, msgs |-> TtsMsgs, frames |-> 0, time |-> 0]

SpecTts == InitTts /\ [][NextTts]_vars

\* ======================================================================
\* Properties
\* ======================================================================

Handles == DOMAIN handles
Msgs    == DOMAIN msgs
endOf(h) == handles[h].start + handles[h].dur

\* no flush has happened since the message of handle h arrived
unflushed(h) == ~msgs[handles[h].msg].flushed

\* a and b are the handles of two fragments that arrived one after the other:
\* every message between them carried no audio or failed to decode
adjacent(a, b) ==
  /\ handles[a].msg < handles[b].msg
  /\ \A k \in Msgs : (handles[a].msg < k /\ k < handles[b].msg)
                        => msgs[k].dec \in {"none", "failed"}

\* C1: of two fragments that arrived one after the other and were scheduled
\* with no flush since, the later one starts where the earlier one ends, or
\* at the clock time of its scheduling when that is later, and never before
\* the earlier one ends.
C1_GapFree ==
  \A a, b \in Handles :
    (adjacent(a, b) /\ unflushed(a) /\ unflushed(b))
      => /\ handles[b].start >= endOf(a)
         /\ \/ handles[b].start = endOf(a)
            \/ handles[b].start = handles[b].at

\* C2: start() is called on the handles in the order in which their fragments
\* arrived: the handles, in scheduling order, have increasing message numbers.
C2_ScheduledInArrivalOrder ==
  \A a, b \in Handles : a < b => handles[a].msg < handles[b].msg

\* the messages, in arrival order, that carry a non-empty transcription text
RECURSIVE textMsgs(_)
textMsgs(k) ==
  IF k = 0 THEN <<>>
  ELSE IF msgs[k].text = "some" THEN Append(textMsgs(k - 1), k)
  ELSE textMsgs(k - 1)

\* C3: the onTranscript calls are, in order, the non-empty transcription texts
\* of the messages in arrival order, whatever decodes are pending.
C3_TranscriptOrder == transcripts = textMsgs(Len(msgs))

\* C3 witness: a transcript was emitted for a later message while the decode of
\* an earlier message, which had emitted its own transcript, was still pending.
C3_Witness ==
  \E i, j \in Msgs :
    /\ i < j
    /\ msgs[i].dec = "pending" /\ msgs[i].text = "some"
    /\ msgs[j].text = "some"
    /\ transcripts = textMsgs(Len(msgs))
    /\ Len(transcripts) >= 2

\* the handler of a message with the interruption flag runs to its end in
\* this step: message i arrives without audio, or its decode settles
interruptHandled(i) ==
  \/ /\ Len(msgs') = Len(msgs) + 1 /\ i = Len(msgs')
     /\ msgs'[i].intr /\ msgs'[i].dec = "none"
  \/ /\ i \in Msgs /\ msgs[i].intr
     /\ msgs[i].dec = "pending" /\ msgs'[i].dec # "pending"

\* C4: when a message with the interruption flag has been handled while two
\* scheduled fragments were still active, both have been stopped, the active
\* set is empty and the cursor is 0.
C4_InterruptionFlushes ==
  [][\A i \in 1..(Len(msgs) + 1) :
       (interruptHandled(i) /\ Cardinality(sourceNodesRef) >= 2)
         => /\ sourceNodesRef' = {}
            /\ nextStartTimeRef' = 0
            /\ \A h \in sourceNodesRef : handles'[h].st = "stopped"]_vars

\* C5: connectionStatus never goes from disconnected to connected, never from
\* connected to connecting, and startSession is never entered while the status
\* is connecting.
C5_StatusTransitions ==
  /\ transition # <<"disconnected", "connected">>
  /\ transition # <<"connected", "connecting">>
  /\ \A n \in Sessions : sess[n].entered # "connecting"

\* the sendRealtimeInput calls among the calls cs, as frame numbers
RECURSIVE sends(_)
sends(cs) ==
  IF cs = <<>> THEN <<>>
  ELSE IF Head(cs).op = "send" THEN <<Head(cs).f>> \o sends(Tail(cs))
  ELSE sends(Tail(cs))

framesOf(n) == [i \in DOMAIN sess[n].captured |-> sess[n].captured[i].f]

\* C6: no captured frame is dropped or reordered: while the promise is pending
\* every frame of the session waits in capture order, and once it has resolved
\* the frames sent are exactly the frames captured, in capture order.
C6_FramesInOrder ==
  \A n \in Sessions :
    IF sess[n].resolved
      THEN sends(sess[n].wire) = framesOf(n)
      ELSE sends(sess[n].queue) = framesOf(n) /\ sends(sess[n].wire) = <<>>

\* C6 witness: a frame captured before the promise resolved and a frame
\* captured after it have both been sent.
C6_Witness ==
  \E n \in Sessions :
    /\ sess[n].resolved
    /\ \E i, j \in DOMAIN sess[n].captured :
         i < j /\ sess[n].captured[i].queued /\ ~sess[n].captured[j].queued
    /\ sends(sess[n].wire) = framesOf(n)

captureStopped(S, n) == S[n].stream # "live" /\ S[n].proc # "connected"

\* C7: when onError runs for a session of the mounted component while the
\* user is listening, the status becomes disconnected and the session's
\* microphone tracks are stopped and its processor disconnected.
C7_ErrorStopsCapture ==
  [][\A n \in Sessions :
       (mounted /\ isListening /\ ~sess[n].errFired /\ sess'[n].errFired)
         => /\ connectionStatus' = "disconnected"
            /\ captureStopped(sess', n)]_vars

\* C8: a session-level error (onError, or the catch of startSession) leaves the
\* listening intent off and starts no session.
C8_ErrorForcesListeningOff ==
  [][\A n \in Sessions :
       ( \/ (~sess[n].errFired /\ sess'[n].errFired)
         \/ (sess[n].phase # "failed" /\ sess'[n].phase = "failed") )
       => (~isListening' /\ attempts' = attempts)]_vars

\* close() has been asked for on session n by the component
closeAsked(S, n) ==
  \/ \E i \in DOMAIN S[n].queue : S[n].queue[i] = closeOp
  \/ \E i \in DOMAIN S[n].wire : S[n].wire[i] = closeOp

\* C9: when the remote peer closes an open connection of the mounted component
\* while the user is listening, the status becomes disconnected and the
\* session's capture source is stopped.
C9_CloseStopsCapture ==
  [][\A n \in Sessions :
       (mounted /\ isListening /\ sess[n].conn = "open" /\ ~closeAsked(sess, n)
          /\ sess'[n].conn = "closed")
         => /\ connectionStatus' = "disconnected"
            /\ captureStopped(sess', n)]_vars

teardownRank(step) ==
  CASE step = "capture" -> 1 [] step = "close" -> 2
    [] step = "flush" -> 3 [] step = "release" -> 4

\* C10: in a local teardown (stop or unmount) of a session whose connection is
\* established, the steps come in the order capture stopped, connection
\* closed, scheduler flushed, output context released; the flush and the
\* release never come before close() has been invoked.
C10_TeardownOrder ==
  \A j \in DOMAIN teardownLog :
    (teardownLog[j].s # 0 /\ sess[teardownLog[j].s].resolved) =>
      /\ \A i \in 1..(j - 1) :
           teardownLog[i].s = teardownLog[j].s
             => teardownRank(teardownLog[i].step) <= teardownRank(teardownLog[j].step)
      /\ teardownLog[j].step \in {"flush", "release"}
           => \E i \in 1..(j - 1) :
                teardownLog[i] = [step |-> "close", s |-> teardownLog[j].s]

\* the effect takes its stop branch in this step: the intent goes off while the
\* status is connected
localStop == mounted /\ mounted' /\ isListening /\ ~isListening'
               /\ connectionStatus = "connected"

\* C11: a local toggle-off while connected leaves the playback scheduler
\* untouched: no active handle is stopped, the active set keeps its members and
\* the cursor is not reset.
C11_LocalStopKeepsPlayback ==
  [][localStop => /\ handles' = handles
                  /\ sourceNodesRef' = sourceNodesRef
                  /\ nextStartTimeRef' = nextStartTimeRef]_vars

\* the session started last has been torn down locally (stop or unmount), so
\* every session there is has seen its teardown begin
tornDown == teardownLog # <<>> /\ teardownLog[1].s = attempts

\* C12: once the teardown has begun, the inbound path (an arriving message, a
\* decode that settles) changes neither the active set nor the cursor.
C12_NoSchedulingAfterTeardown ==
  [][(tornDown /\ msgs' # msgs /\ teardownLog' = teardownLog)
       => /\ sourceNodesRef' = sourceNodesRef
          /\ nextStartTimeRef' = nextStartTimeRef]_vars

\* session n holds no microphone and no connection: its tracks are stopped,
\* its processor is disconnected, and its connection was never opened, has
\* failed, was closed by the peer or has had close() called on it
sessionTornDown(n) ==
  /\ captureStopped(sess, n)
  /\ \/ sess[n].conn \in {"none", "error", "closed"}
     \/ \E i \in DOMAIN sess[n].wire : sess[n].wire[i] = closeOp

\* C13: when the listening intent is off while a session is connecting or
\* running, then, unless the intent comes back on, the component unmounts or
\* the peer ends the connection first, the session is eventually torn down
\* (microphone released, connection closed) and the status is disconnected.
C13_OffLeadsToTeardown ==
  \A n \in Sessions :
    (mounted /\ ~isListening /\ sess[n].phase \in {"awaitMic", "running"})
      ~> \/ isListening
         \/ ~mounted
         \/ sess[n].conn \in {"error", "closed"}
         \/ sessionTornDown(n) /\ connectionStatus = "disconnected"

micFailed(n) ==
  /\ sess[n].phase = "awaitMic" /\ sess'[n].phase = "failed"
  /\ sess'[n].stream = "none"

\* C15: when acquiring the microphone fails, the start is fatal and not
\* retried: the failed call opens no connection, no new startSession runs, the
\* status is disconnected afterwards and the listening intent is off.
C15_MicFailureIsFatal ==
  [][\A n \in Sessions :
       (mounted /\ micFailed(n))
         => /\ sess'[n].conn = "none"
            /\ attempts' = attempts
            /\ connectionStatus' = "disconnected"
            /\ ~isListening']_vars

\* C16: when the decode of a fragment fails, the fragment is dropped and
\* nothing else changes: no handle is created, the active set and the cursor
\* stay as they are, the status and the listening intent are not touched, no
\* other message's state changes and the connection stays as it was, so later
\* messages are still received.
C16_DecodeFailureIsLocal ==
  [][\A i \in Msgs :
       (msgs[i].dec = "pending" /\ msgs'[i].dec = "failed")
         => /\ handles' = handles
            /\ sourceNodesRef' = sourceNodesRef
            /\ nextStartTimeRef' = nextStartTimeRef
            /\ connectionStatus' = connectionStatus
            /\ isListening' = isListening
            /\ transcripts' = transcripts
            /\ sess' = sess
            /\ \A j \in Msgs \ {i} : msgs'[j] = msgs[j]]_vars

\* C16 witness: the decode of a fragment has failed; the session is still
\* connected and the fragment of a later message has been scheduled and plays.
C16_Witness ==
  \E i, j \in Msgs :
    /\ i < j
    /\ msgs[i].dec = "failed"
    /\ msgs[j].dec = "ok"
    /\ \E h \in sourceNodesRef : handles[h].msg = j /\ handles[h].st = "playing"
    /\ nextStartTimeRef > 0
    /\ connectionStatus = "connected" /\ isListening

\* every reference stopAudio reads is null or points to a resource that has
\* not been released yet, so a resource is never released a second time
refsLive ==
  /\ audioContextInputRef # 0 => sess[audioContextInputRef].inCtx = "open"
  /\ streamRef # 0 => sess[streamRef].stream = "live"
  /\ processorRef # 0 => sess[processorRef].proc = "connected"

\* stopAudio runs in this step (stop branch of the effect, or unmount)
stopAudioStep ==
  /\ teardownLog' # teardownLog
  /\ \A n \in Sessions : sess'[n].resolved = sess[n].resolved

\* C20: stopAudio is safe in every state: whatever the references hold (also
\* nothing, when startSession never ran or has not completed, or right after
\* an earlier stopAudio) it releases exactly the resources they point to, none
\* of them already released, and leaves the three references null.
C20_StopAudioSafe ==
  /\ []refsLive
  /\ [][stopAudioStep =>
          /\ audioContextInputRef' = 0 /\ streamRef' = 0 /\ processorRef' = 0
          /\ \A n \in Sessions :
               /\ sess'[n].inCtx  = IF audioContextInputRef = n THEN "closed"
                                    ELSE sess[n].inCtx
               /\ sess'[n].stream = IF streamRef = n THEN "stopped"
                                    ELSE sess[n].stream
               /\ sess'[n].proc   = IF processorRef = n THEN "disconnected"
                                    ELSE sess[n].proc]_vars

\* C20 witness: stopAudio has run twice in a row: the stop branch released the
\* capture of a connected session, then the unmount cleanup ran.
C20_Witness ==
  /\ ~mounted
  /\ attempts = 1
  /\ sess[1].stream = "stopped" /\ sess[1].inCtx = "closed"
  /\ sess[1].conn = "open"
  /\ transition = <<"connected", "disconnected">>
  /\ audioContextInputRef = 0 /\ streamRef = 0 /\ processorRef = 0

\* C17: a backend failure of refinePromptWithSearch, suggestStyles or
\* generateSpeech is never raised to the caller and is answered with the safe
\* default: the original prompt unchanged, the empty list, null.
C17_FailuresSwallowed ==
  lastCall.failed =>
    /\ lastCall.fn = "refinePromptWithSearch"
         => ~lastCall.result.raised /\ lastCall.result.value = lastCall.arg
    /\ lastCall.fn = "suggestStyles"
         => /\ ~lastCall.result.raised
            /\ lastCall.result.list /\ lastCall.result.items = {}
    /\ lastCall.fn = "generateSpeech"
         => ~lastCall.result.raised /\ lastCall.result.value = "null"

\* C17 witness: refinePromptWithSearch was called with a prompt that carries
\* tags, the backend call failed, and the prompt came back as it was.
C17_Witness ==
  /\ lastCall.fn = "refinePromptWithSearch"
  /\ lastCall.failed
  /\ lastCall.arg = [text |-> "cat", tags |-> {"Anime"}]
  /\ lastCall.result = [raised |-> FALSE, value |-> lastCall.arg]

\* C18: whatever the backend returns, the items of a list that suggestStyles
\* returns are all among the candidate tags passed in.
C18_SuggestionsAreCandidates ==
  (lastCall.fn = "suggestStyles" /\ lastCall.result.list)
    => lastCall.result.items \subseteq allItems(lastCall.groups)

\* C19: generateImage raises every backend failure, and when handleGenerate
\* ends on such a failure the error message is set and non-empty, the gallery
\* is empty and appState is IDLE.
C19_GenerationFailureVisible ==
  /\ [](lastCall.fn = "generateImage" /\ lastCall.failed
          => lastCall.result.raised)
  /\ [][(genCall.stage = "generate" /\ genCall'.stage = "idle" /\ lastCall'.failed)
          => /\ error' \notin {"null", ""}
             /\ generatedImages' = <<>>
             /\ appState' = "IDLE"]_vars

\* C19 witness: a generation with a prompt and a tag ended on a backend error
\* that had no message; the default message is shown.
C19_Witness ==
  /\ lastCall.fn = "generateImage" /\ lastCall.failed
  /\ lastCall.arg = [text |-> "cat", tags |-> {"Anime"}]
  /\ lastCall.result.raised /\ lastCall.result.message = ""
  /\ genCall = NoCall
  /\ error = "generationFailed"
  /\ generatedImages = <<>>
  /\ appState = "IDLE"

\* the time during which live handle h plays, and one-shot node o plays
liveFrom(h)  == Max(handles[h].start, handles[h].at)
liveUntil(h) == liveFrom(h) + handles[h].dur
shotUntil(o) == ttsNodes[o].at + ttsNodes[o].dur

\* C21: a one-shot utterance and a live-session fragment never play at
\* overlapping times, unless the live fragment has been flushed.
C21_PathsSerialized ==
  \A o \in DOMAIN ttsNodes, h \in Handles :
    handles[h].st # "stopped"
      => \/ liveUntil(h) <= ttsNodes[o].at
         \/ shotUntil(o) <= liveFrom(h)

\* C22: every message with the interruption flag causes a flush while it is
\* handled: once its handler has ended a flush has happened since it arrived
\* (also when its audio payload failed to decode), and until then no later
\* message has scheduled a fragment.
C22_InterruptionAlwaysFlushes ==
  \A i \in Msgs :
    (msgs[i].intr /\ ~msgs[i].flushed)
      => /\ msgs[i].dec = "pending"
         /\ \A h \in Handles : handles[h].msg <= i

\* C23: the start time given to a node is never earlier than the value of the
\* output clock at the moment start() is called.
C23_StartNotInThePast ==
  \A h \in Handles : handles[h].start >= handles[h].at

\* a step that flushes the scheduler: every active node is stopped, the set is
\* cleared, and every message that has arrived has seen a flush
flushStep ==
  /\ sourceNodesRef' = {}
  /\ \A h \in sourceNodesRef : handles'[h].st = "stopped"
  /\ \A i \in DOMAIN msgs' : msgs'[i].flushed

\* an audio message arrives (line 209), and a node is scheduled by a message
\* that does not carry the interruption flag (line 227)
audioArrives == Len(msgs') = Len(msgs) + 1 /\ msgs'[Len(msgs')].dec = "pending"
nodeScheduled ==
  /\ Len(handles') = Len(handles) + 1
  /\ ~msgs[handles'[Len(handles')].msg].intr

\* C24: the cursor is lowered only by a flush, which sets it to exactly 0;
\* the arrival of an audio message raises it to max(cursor, now), and
\* scheduling a node raises it by the duration of the node's buffer.
C24_CursorMonotone ==
  [][/\ nextStartTimeRef' < nextStartTimeRef
          => flushStep /\ nextStartTimeRef' = 0
     /\ audioArrives
          => nextStartTimeRef' = IF nextStartTimeRef >= now
                                   THEN nextStartTimeRef ELSE now
     /\ nodeScheduled
          => nextStartTimeRef'
               = nextStartTimeRef + handles'[Len(handles')].dur]_vars

\* C24 witness: the cursor was raised to the clock's value 1 at an arrival,
\* then by the buffer's duration, and a flush has set it back to 0
C24_Witness ==
  /\ nextStartTimeRef = 0
  /\ \E h \in Handles : handles[h].st = "stopped" /\ handles[h].start > 0

\* C25: the active set holds exactly the nodes that were started and have
\* neither ended by themselves nor been stopped by a flush; a node that has
\* left the set keeps its one terminal event; and the 'ended' event of a node
\* that a flush has stopped changes neither the set nor the cursor nor any
\* node's state.
C25_ActiveSetExact ==
  /\ [](sourceNodesRef = {h \in Handles : handles[h].st = "playing"})
  /\ [][/\ \A h \in Handles :
             handles[h].st # "playing" => handles'[h].st = handles[h].st
        /\ (\E h \in Handles : handles[h].st = "stopped" /\ ~handles[h].evt
                                 /\ handles'[h].evt)
             => /\ sourceNodesRef' = sourceNodesRef
                /\ nextStartTimeRef' = nextStartTimeRef
                /\ \A k \in Handles : handles'[k].st = handles[k].st
                /\ msgs' = msgs]_vars

\* C25 witness: a node stopped by a flush has delivered its 'ended' event
C25_Witness ==
  \E h \in Handles : handles[h].st = "stopped" /\ handles[h].evt

\* a message arrives; it is the last of msgs'
messageArrives == Len(msgs') = Len(msgs) + 1
arrived == msgs'[Len(msgs')]

\* C26: a message with a transcript text, no audio payload and no
\* interruption flag emits exactly one transcript event, with its text, starts
\* no decode and leaves the cursor, the active set and the nodes unchanged; a
\* message without a text, or with the empty text, emits no event; and no
\* step other than an arrival emits one.
C26_TranscriptOnly ==
  [][/\ (messageArrives /\ arrived.audio = 0 /\ ~arrived.intr)
          => /\ transcripts' = (IF arrived.text = "some"
                                  THEN Append(transcripts, Len(msgs'))
                                  ELSE transcripts)
             /\ arrived.dec = "none"
             /\ UNCHANGED schedVars
     /\ (messageArrives /\ arrived.text # "some") => transcripts' = transcripts
     /\ ~messageArrives => transcripts' = transcripts]_vars

\* C26 witness: a transcript-only message has arrived and emitted its event
\* while a node was active and the cursor stood above 0
C26_Witness ==
  \E i \in Msgs :
    /\ msgs[i].text = "some" /\ msgs[i].audio = 0 /\ ~msgs[i].intr
    /\ \E k \in DOMAIN transcripts : transcripts[k] = i
    /\ \E h \in sourceNodesRef : handles[h].msg < i
    /\ nextStartTimeRef > 0

\* session n holds a live capture source or a live connection
holdsLive(S, n) ==
  \/ S[n].stream = "live"
  \/ S[n].proc = "connected"
  \/ S[n].conn \in {"pending", "open"}

\* C27: startSession is never entered while an earlier session's microphone
\* stream, processor or connection is still live.
C27_SingleSession ==
  [][attempts' > attempts
       => \A n \in 1..attempts : ~holdsLive(sess', n)]_vars

\* the calls that reach the wire of session n in this step
newCalls(n) == (Len(sess[n].wire) + 1)..Len(sess'[n].wire)

\* C28: a frame is transmitted on a session only before close() has been
\* called on it and before its onError or onClose callback has fired.
C28_NoSendAfterClose ==
  [][\A n \in Sessions : \A k \in newCalls(n) :
       sess'[n].wire[k].op = "send"
         => /\ sess[n].conn \notin {"error", "closed"}
            /\ \A j \in 1..(k - 1) : sess'[n].wire[j] # closeOp]_vars

\* C29: when a startSession call fails, the input context it opened is closed
\* and audioContextInputRef no longer points to it, and no stream of the call
\* stays live.
C29_FailedStartReleases ==
  [][\A n \in Sessions :
       (sess[n].phase # "failed" /\ sess'[n].phase = "failed")
         => /\ sess'[n].inCtx # "open"
            /\ sess'[n].stream # "live"
            /\ audioContextInputRef' # n]_vars

\* C30: when handleSmartStyle completes with a list of suggestions, the
\* selected set becomes the selection of that moment united with the
\* suggested tags.
C30_SuggestionOnlyAdds ==
  [][(styleCall.stage = "suggest" /\ styleCall'.stage = "idle"
        /\ lastCall'.result.list)
       => selectedParams' = selectedParams \cup lastCall'.result.items]_vars

\* a step in which handleGenerate starts a generation: a call comes into
\* flight that is not the continuation of the one already there
generationStarts ==
  /\ genCall'.stage # "idle"
  /\ genCall' # genCall
  /\ ~(genCall.stage = "refine" /\ genCall'.stage = "generate")

\* C31: a generation starts only while appState is IDLE and sets it to
\* GENERATING_IMAGE; appState is GENERATING_IMAGE exactly while a call of
\* handleGenerate is in flight; and, the backend calls settling, a generation
\* in flight leads to appState IDLE, whether it succeeds or fails.
C31_SingleFlightFinishes ==
  /\ [][generationStarts
          => (appState = "IDLE" /\ genCall.stage = "idle"
              /\ appState' = "GENERATING_IMAGE")]_vars
  /\ [](appState = "GENERATING_IMAGE" <=> genCall.stage # "idle")
  /\ (appState = "GENERATING_IMAGE") ~> (appState = "IDLE")

\* C31 witness: a generation that went through the refinement and the image
\* request has ended with images shown and appState back at IDLE
C31_Witness ==
  /\ appState = "IDLE"
  /\ genCall = NoCall
  /\ lastCall.fn = "generateImage" /\ ~lastCall.failed
  /\ lastCall.arg = Refined
  /\ prompt = Refined
  /\ generatedImages # <<>>

====
